---- MODULE Spec2Model ----
(***************************************************************************)
(* buckhunt: the bulk scan pipelines and the single-name path of           *)
(* src/main.go, and the dual-strategy prober, the single-name path and the *)
(* bulk scan of src/unnamed/part_002.  A run is one execution of main():   *)
(* the flags are drawn in Init, the goroutines main spawns are processes   *)
(* with a program counter, the channels are bounded FIFO sequences with a  *)
(* closed flag.                                                            *)
(***************************************************************************)
EXTENDS Integers, Sequences, FiniteSets, TLC

\* ------------------------------------------------------------ bounds ----
MaxWorkers == 2      \* largest -w value drawn
MaxLines == 2        \* largest number of stdin lines the scanner returns
MaxCounted == 2      \* largest counter value a drawn Stats holds
FloodLines == 5      \* lines of stdin in the long quiet scan

\* ----------------------------------------------------- program constants
MinWorkerCount == 1      \* main.go:179
MaxWorkerCount == 100    \* main.go:181

\* ------------------------------------------------------------- strings --
\* A string is a sequence of one-character strings.
Lines == { <<>>, <<" ">>, <<"a", " ">>, <<"*", "b">> }
Args ==
  { <<"a">>, <<"b">>, <<" ">>,
    <<"h", "t", "t", "p", "s", ":", "/", "/", "a", "/">> }

RECURSIVE TrimLeft(_)
TrimLeft(s) == IF s # <<>> /\ Head(s) = " " THEN TrimLeft(Tail(s)) ELSE s

RECURSIVE TrimRight(_)
TrimRight(s) ==
  IF s # <<>> /\ s[Len(s)] = " " THEN TrimRight(SubSeq(s, 1, Len(s) - 1)) ELSE s

TrimSpace(s) == TrimRight(TrimLeft(s))

HasPrefix(s, c) == s # <<>> /\ Head(s) = c

\* ------------------------------------------------------------- verdicts --
Markers == {"NoSuchBucket", "AccessDenied", "AllAccessDisabled"}
\* What `aws s3 ls` can do: exit status and the markers found in its stderr.
ListingOutcomes == [err : BOOLEAN, stderr : SUBSET Markers]

NoResult ==
  [id |-> 0, domain |-> <<>>, found |-> FALSE, canRead |-> FALSE,
   canWrite |-> FALSE, awsRead |-> FALSE]

\* analyzeBucket without the AccessDenied / AllAccessDisabled case
analyzeBucket_NoDenied(id, domain, o) ==
  LET result == [id |-> id, domain |-> domain, found |-> FALSE,
                 canRead |-> FALSE, canWrite |-> FALSE, awsRead |-> FALSE]
  IN IF ~o.err
       THEN [result EXCEPT !.found = TRUE, !.canRead = TRUE, !.awsRead = TRUE]
     ELSE result

\* analyzeBucket testing the AccessDenied markers before NoSuchBucket
analyzeBucket_DeniedFirst(id, domain, o) ==
  LET result == [id |-> id, domain |-> domain, found |-> FALSE,
                 canRead |-> FALSE, canWrite |-> FALSE, awsRead |-> FALSE]
  IN IF ~o.err
       THEN [result EXCEPT !.found = TRUE, !.canRead = TRUE, !.awsRead = TRUE]
     ELSE IF "AccessDenied" \in o.stderr \/ "AllAccessDisabled" \in o.stderr
       THEN [result EXCEPT !.found = TRUE]
     ELSE result

analyzeBucket(id, domain, o) ==
  LET result == [id |-> id, domain |-> domain, found |-> FALSE,
                 canRead |-> FALSE, canWrite |-> FALSE, awsRead |-> FALSE]
  IN IF ~o.err
       THEN [result EXCEPT !.found = TRUE, !.canRead = TRUE, !.awsRead = TRUE]
     ELSE IF "NoSuchBucket" \in o.stderr
       THEN result
     ELSE IF "AccessDenied" \in o.stderr \/ "AllAccessDisabled" \in o.stderr
       THEN [result EXCEPT !.found = TRUE]
     ELSE result

\* --------------------------------------------------------------- Stats ---
ZeroStats ==
  [total |-> 0, found |-> 0, notFound |-> 0,
   withRead |-> 0, withWrite |-> 0, withAwsRead |-> 0]

\* increment without the early return of the not-found branch
increment_NoReturn(s, found, canRead, canWrite, awsRead) ==
  LET s1 == [s EXCEPT !.total = @ + 1,
                      !.notFound = IF ~found THEN @ + 1 ELSE @]
  IN [s1 EXCEPT !.found = @ + 1,
                !.withRead = IF canRead THEN @ + 1 ELSE @,
                !.withWrite = IF canWrite THEN @ + 1 ELSE @,
                !.withAwsRead = IF awsRead THEN @ + 1 ELSE @]

\* increment counting the three access flags before the found test
increment_FlagsFirst(s, found, canRead, canWrite, awsRead) ==
  LET s1 == [s EXCEPT !.total = @ + 1,
                      !.withRead = IF canRead THEN @ + 1 ELSE @,
                      !.withWrite = IF canWrite THEN @ + 1 ELSE @,
                      !.withAwsRead = IF awsRead THEN @ + 1 ELSE @]
  IN IF ~found
       THEN [s1 EXCEPT !.notFound = @ + 1]
       ELSE [s1 EXCEPT !.found = @ + 1]

increment(s, found, canRead, canWrite, awsRead) ==
  LET s1 == [s EXCEPT !.total = @ + 1]
  IN IF ~found
       THEN [s1 EXCEPT !.notFound = @ + 1]
       ELSE [s1 EXCEPT !.found = @ + 1,
                       !.withRead = IF canRead THEN @ + 1 ELSE @,
                       !.withWrite = IF canWrite THEN @ + 1 ELSE @,
                       !.withAwsRead = IF awsRead THEN @ + 1 ELSE @]

\* the clamp without its upper limit
clampWorkers_NoUpper(w) == IF w < MinWorkerCount THEN MinWorkerCount ELSE w

\* the -w clamp
clampWorkers(w) ==
  IF w < MinWorkerCount THEN MinWorkerCount
  ELSE IF w > MaxWorkerCount THEN MaxWorkerCount
  ELSE w

\* a printed CSV line: "%s,%v,%v,%v\n"
csvLine(r) ==
  [kind |-> "csv", domain |-> r.domain, canRead |-> r.canRead,
   canWrite |-> r.canWrite, awsRead |-> r.awsRead]

\* ----------------------------------------- the dual-strategy variant -----
\* src/unnamed/part_002 probes with the credentialed listing and with
\* anonymous HTTP requests.
Http == <<"h", "t", "t", "p", ":", "/", "/">>
Https == <<"h", "t", "t", "p", "s", ":", "/", "/">>

\* strings.TrimPrefix
TrimPrefix(s, p) ==
  IF Len(s) >= Len(p) /\ SubSeq(s, 1, Len(p)) = p
    THEN SubSeq(s, Len(p) + 1, Len(s)) ELSE s

\* strings.Index(s, c) for a one-character c, counted from 1; 0 when absent
Index(s, c) ==
  IF \E i \in 1..Len(s) : s[i] = c
    THEN CHOOSE i \in 1..Len(s) : s[i] = c /\ \A j \in 1..(i - 1) : s[j] # c
    ELSE 0

cleanDomain_part002(domain) ==
  LET d1 == TrimPrefix(TrimPrefix(domain, Http), Https)
      idx == Index(d1, "/")
      d2 == IF idx # 0 THEN SubSeq(d1, 1, idx - 1) ELSE d1
  IN TrimSpace(d2)

\* stdout lines of `aws s3 ls`, each split by strings.Fields
PrefixLine == <<"PRE", "d/">>
ObjectLine == <<"2023-01-17", "10:00:00", "5", "f">>
SpacedLine == <<"2023-01-17", "10:00:00", "7", "g", "h">>
Stdouts == { <<>>, <<ObjectLine>>, <<PrefixLine, SpacedLine>> }
HeadStatuses == {"err", "200", "403", "404"}
AclStatuses == {"err", "200", "403"}

\* What the collaborators answer for one bucket: the aws CLI (exit status,
\* stderr markers, stdout), the HEAD, GET and PUT requests, whether the GET
\* body parses as a listing, the answer typed at the download prompt and the
\* exit status of `aws s3 sync`.
NoEnv ==
  [err |-> FALSE, stderr |-> {}, stdout |-> <<>>, head |-> "none",
   get |-> "none", put |-> "none", xml |-> FALSE, answer |-> "none",
   syncErr |-> FALSE]

listed(o) == [NoEnv EXCEPT !.err = o.err, !.stderr = o.stderr]

Envs ==
  [err : BOOLEAN, stderr : {{}}, stdout : Stdouts, head : HeadStatuses,
   get : AclStatuses, put : AclStatuses, xml : BOOLEAN,
   answer : {"y", "n"}, syncErr : BOOLEAN]

NoResult2 ==
  [domain |-> <<>>, found |-> FALSE, canRead |-> FALSE, canWrite |-> FALSE,
   awsRead |-> FALSE, files |-> <<>>]

RECURSIVE Join(_)
Join(parts) ==
  IF Len(parts) = 1 THEN <<parts[1]>>
  ELSE <<parts[1], " ">> \o Join(Tail(parts))

RECURSIVE parseListing(_)
parseListing(lines) ==
  IF lines = <<>> THEN <<>>
  ELSE LET parts == Head(lines) IN
    (IF Len(parts) >= 4
       THEN <<[Name |-> Join(SubSeq(parts, 4, Len(parts))), Size |-> parts[3]]>>
       ELSE <<>>) \o parseListing(Tail(lines))

checkAwsAccess(env) ==
  IF env.err
    THEN [awsRead |-> FALSE, files |-> <<>>]
    ELSE [awsRead |-> TRUE, files |-> parseListing(env.stdout)]

checkBucketACL(env) ==
  IF env.get = "err"
    THEN [canRead |-> FALSE, canWrite |-> FALSE, calls |-> <<"GET">>]
  ELSE IF env.put = "err"
    THEN [canRead |-> env.get = "200", canWrite |-> FALSE,
          calls |-> <<"GET", "PUT">>]
  ELSE [canRead |-> env.get = "200", canWrite |-> env.put = "200",
        calls |-> <<"GET", "PUT">>]

\* the verdict without the HEAD status test
probe_part002_NoHeadTest(bucketName, env) ==
  LET aws == checkAwsAccess(env)
      r1 == IF aws.awsRead
              THEN [NoResult2 EXCEPT !.domain = bucketName, !.found = TRUE,
                                     !.awsRead = TRUE, !.files = aws.files]
              ELSE [NoResult2 EXCEPT !.domain = bucketName]
      acl == checkBucketACL(env)
  IN IF env.head # "err"
       THEN [result |-> [r1 EXCEPT !.canRead = acl.canRead,
                                   !.canWrite = acl.canWrite],
             calls |-> <<"ls", "HEAD">> \o acl.calls]
       ELSE [result |-> r1, calls |-> <<"ls", "HEAD">>]

\* the verdict with found taken from the HEAD status alone
probe_part002_HeadDecides(bucketName, env) ==
  LET aws == checkAwsAccess(env)
      r1 == IF aws.awsRead
              THEN [NoResult2 EXCEPT !.domain = bucketName, !.found = TRUE,
                                     !.awsRead = TRUE, !.files = aws.files]
              ELSE [NoResult2 EXCEPT !.domain = bucketName]
      acl == checkBucketACL(env)
  IN IF env.head # "err" /\ env.head # "404"
       THEN [result |-> [r1 EXCEPT !.found = TRUE, !.canRead = acl.canRead,
                                   !.canWrite = acl.canWrite],
             calls |-> <<"ls", "HEAD">> \o acl.calls]
       ELSE [result |-> [r1 EXCEPT !.found = FALSE],
             calls |-> <<"ls", "HEAD">>]

\* analyzeBucket up to its report: the verdict and the requests issued
probe_part002(bucketName, env) ==
  LET aws == checkAwsAccess(env)
      r1 == IF aws.awsRead
              THEN [NoResult2 EXCEPT !.domain = bucketName, !.found = TRUE,
                                     !.awsRead = TRUE, !.files = aws.files]
              ELSE [NoResult2 EXCEPT !.domain = bucketName]
      acl == checkBucketACL(env)
  IN IF env.head # "err" /\ env.head # "404"
       THEN [result |-> [r1 EXCEPT !.found = TRUE, !.canRead = acl.canRead,
                                   !.canWrite = acl.canWrite],
             calls |-> <<"ls", "HEAD">> \o acl.calls]
       ELSE [result |-> r1, calls |-> <<"ls", "HEAD">>]

\* analyzeBucket's report when quietMode is false: the lines printed and the
\* requests issued while printing
report_part002(r, env) ==
  LET checking == <<[kind |-> "checking", domain |-> r.domain]>>
      httpList == ~r.awsRead /\ r.canRead
      prompt == r.canRead \/ r.awsRead
      sync == prompt /\ env.answer = "y"
  IN IF ~r.found
       THEN [out |-> checking \o <<[kind |-> "absent"]>>, calls |-> <<>>]
       ELSE
         [out |->
            checking
            \o <<[kind |-> "flags", canRead |-> r.canRead,
                  canWrite |-> r.canWrite, awsRead |-> r.awsRead]>>
            \o (IF r.awsRead
                  THEN <<[kind |-> "files", via |-> "AWS", files |-> r.files]>>
                ELSE IF httpList /\ env.get # "err" /\ env.xml
                  THEN <<[kind |-> "files", via |-> "HTTP"]>>
                ELSE <<>>)
            \o (IF prompt THEN <<[kind |-> "prompt"]>> ELSE <<>>)
            \o (IF sync THEN <<[kind |-> "download", failed |-> env.syncErr]>>
                ELSE <<>>),
          calls |-> (IF httpList THEN <<"GET">> ELSE <<>>)
                    \o (IF sync THEN <<"sync">> ELSE <<>>)]

analyzeBucket_part002(bucketName, quiet, env) ==
  LET p == probe_part002(bucketName, env)
      rep == report_part002(p.result, env)
  IN IF quiet
       THEN [result |-> p.result, calls |-> p.calls, out |-> <<>>]
       ELSE [result |-> p.result, calls |-> p.calls \o rep.calls,
             out |-> rep.out]

\* ---------------------------------------------------------------- state --
VARIABLES
  quietMode,      \* -q
  isPipe,         \* stdin is not a character device
  args,           \* flag.Args(): <<>> or one name
  requested,      \* history: the -w value flag.Parse() returned
  workers,        \* *workers (after the clamp, once main has passed it)
  stdinLines,     \* the number of lines stdin holds
  jobs,           \* the jobs channel's buffer
  jobsClosed,
  results,        \* the results channel's buffer
  resultsClosed,
  doneClosed,     \* the done channel (interactive mode)
  wgCount,        \* the WaitGroup counter
  wpc,            \* worker goroutines: position
  wjob,           \* worker goroutines: the domain ranged from jobs (late:
                  \* history, it was dequeued after a quit key)
  wres,           \* worker goroutines: the Result of analyzeBucket
  spc,            \* the goroutine that waits for the workers
  rpc,            \* the goroutine that reads stdin
  rjob,           \* the domain the reader is sending
  linesRead,      \* lines scanner.Scan() has returned
  count,          \* reader's count (interactive)
  skipped,        \* reader's skipped (interactive)
  fpc,            \* the goroutine that forwards results to the UI
  fres,           \* the result it holds
  jobCount,       \* atomic.Int32 jobCount (interactive)
  mpc,            \* main
  uiState,        \* the tea.Program: "idle", "running", "quitting", "stopped"
  userQuit,       \* a "q"/"ctrl+c" key has been handled
  exited,         \* main has returned: the process and its goroutines are gone
  stats,          \* Stats (quiet: stats, interactive: m.stats)
  m,              \* the UI model
  output,         \* lines printed on stdout
  consumed,       \* history: results the consuming loop / Update has received
  accepted,       \* history: line numbers the reader chose to enqueue
  probes,         \* history: line numbers for which analyzeBucket was started
  penv,           \* single name: what the bucket's collaborators answer
  pres,           \* part_002: the Result of analyzeBucket
  pcalls,         \* part_002 history: the requests analyzeBucket issued
  domains,        \* part_002 bulk: the names read from stdin
  ppc,            \* part_002 bulk: processResults' position
  pheld,          \* part_002 bulk: the result processResults holds
  processed,      \* part_002 bulk: processResults' processed
  summary         \* part_002 bulk: the counters read for the summary line

vars ==
  <<quietMode, isPipe, args, requested, workers, stdinLines, jobs, jobsClosed, results, resultsClosed,
    doneClosed, wgCount, wpc, wjob, wres, spc, rpc, rjob, linesRead, count,
    skipped, fpc, fres, jobCount, mpc, uiState, userQuit, exited, stats, m,
    output, consumed, accepted, probes, penv, pres, pcalls, domains, ppc,
    pheld, processed, summary>>

chanVars == <<jobs, jobsClosed, results, resultsClosed, doneClosed>>
workerVars == <<wgCount, wpc, wjob, wres>>
readerVars == <<rpc, rjob, linesRead, count, skipped, accepted>>
fwdVars == <<fpc, fres>>
uiVars == <<uiState, userQuit, stats, m>>
flagVars == <<quietMode, isPipe, args, requested, workers, stdinLines>>
bulk002Vars == <<domains, ppc, pheld, processed, summary>>
proberVars == <<penv, pres, pcalls, bulk002Vars>>

\* part_002's bulk scan has not run
NoBulk002 ==
  /\ domains = <<>> /\ ppc = "off" /\ pheld = NoResult2
  /\ processed = 0 /\ summary = <<>>

WorkerIds == 1..MaxWorkers
NoJob == [id |-> 0, domain |-> <<>>]
NoHeld == [id |-> 0, domain |-> <<>>, late |-> FALSE]
held(job, late) == [id |-> job.id, domain |-> job.domain, late |-> late]

QuietBulk == isPipe /\ quietMode
Interactive == isPipe /\ ~quietMode
SingleDomain == ~isPipe

\* channels made as large as the input
chanCap_InputSized == stdinLines

\* make(chan ..., *workers) in quiet mode, make(chan ..., *workers*2) interactive
chanCap == IF quietMode THEN workers ELSE workers * 2

InitModel ==
  [testing |-> <<>>, foundBuckets |-> <<>>, done |-> FALSE,
   processing |-> TRUE, debug |-> ""]

\* main.go after the clamp: the channels are made, the goroutines spawned
MainStarted ==
  /\ jobs = <<>> /\ jobsClosed = FALSE
  /\ results = <<>> /\ resultsClosed = FALSE
  /\ doneClosed = FALSE
  /\ wgCount = IF isPipe THEN workers ELSE 0
  /\ wpc = [w \in WorkerIds |-> IF isPipe /\ w <= workers THEN "idle" ELSE "off"]
  /\ wjob = [w \in WorkerIds |-> NoHeld]
  /\ wres = [w \in WorkerIds |-> NoResult]
  /\ spc = IF isPipe THEN "wait" ELSE "off"
  /\ rpc = IF isPipe THEN "scan" ELSE "off"
  /\ rjob = NoJob
  /\ linesRead = 0 /\ count = 0 /\ skipped = 0
  /\ fpc = IF isPipe /\ ~quietMode THEN "recv" ELSE "off"
  /\ fres = NoResult
  /\ jobCount = 0
  /\ mpc = "run"
  /\ uiState = IF isPipe /\ ~quietMode THEN "running" ELSE "idle"
  /\ userQuit = FALSE
  /\ exited = FALSE
  /\ stats = ZeroStats
  /\ m = InitModel
  /\ output = <<>>
  /\ consumed = <<>>
  /\ accepted = {}
  /\ probes = {}
  /\ penv = NoEnv /\ pres = NoResult2 /\ pcalls = <<>>
  /\ NoBulk002

\* main.go: the flags are parsed and clamped, the goroutines spawned
MainInit ==
  /\ quietMode \in BOOLEAN
  /\ isPipe \in BOOLEAN
  /\ args \in IF isPipe THEN {<<>>} ELSE {<<>>} \cup {<<a>> : a \in Args}
  /\ requested \in 0..MaxWorkers
  /\ workers = clampWorkers(requested)
  /\ stdinLines = MaxLines
  /\ MainStarted

\* ------------------------------------------------ quiet-mode bulk scan ---
\* for domain := range jobs
QWorkerRecv(w) ==
  /\ QuietBulk /\ ~exited
  /\ wpc[w] = "idle"
  /\ jobs # <<>>
  /\ wjob' = [wjob EXCEPT ![w] = held(Head(jobs), FALSE)]
  /\ jobs' = Tail(jobs)
  /\ wpc' = [wpc EXCEPT ![w] = "probing"]
  /\ probes' = probes \cup {Head(jobs).id}
  /\ UNCHANGED <<jobsClosed, results, resultsClosed, doneClosed, wgCount, wres,
                 spc, readerVars, fwdVars, jobCount, mpc, uiVars, exited,
                 flagVars, proberVars, output, consumed>>

\* analyzeBucket(domain) returns
QWorkerProbe(w) ==
  /\ QuietBulk /\ ~exited
  /\ wpc[w] = "probing"
  /\ \E o \in ListingOutcomes :
       wres' = [wres EXCEPT ![w] = analyzeBucket(wjob[w].id, wjob[w].domain, o)]
  /\ wjob' = [wjob EXCEPT ![w] = NoHeld]
  /\ wpc' = [wpc EXCEPT ![w] = "sending"]
  /\ UNCHANGED <<chanVars, wgCount, spc, readerVars, fwdVars, jobCount, mpc,
                 uiVars, exited, flagVars, proberVars, output, consumed, probes>>

\* results <- ...
QWorkerSend(w) ==
  /\ QuietBulk /\ ~exited
  /\ wpc[w] = "sending"
  /\ ~resultsClosed
  /\ Len(results) < chanCap
  /\ results' = Append(results, wres[w])
  /\ wres' = [wres EXCEPT ![w] = NoResult]
  /\ wpc' = [wpc EXCEPT ![w] = "idle"]
  /\ UNCHANGED <<jobs, jobsClosed, resultsClosed, doneClosed, wgCount, wjob,
                 spc, readerVars, fwdVars, jobCount, mpc, uiVars, exited,
                 flagVars, proberVars, output, consumed, probes>>

\* range jobs ends; defer wg.Done()
QWorkerExit(w) ==
  /\ QuietBulk /\ ~exited
  /\ wpc[w] = "idle"
  /\ jobsClosed /\ jobs = <<>>
  /\ wpc' = [wpc EXCEPT ![w] = "done"]
  /\ wgCount' = wgCount - 1
  /\ UNCHANGED <<chanVars, wjob, wres, spc, readerVars, fwdVars, jobCount, mpc,
                 uiVars, exited, flagVars, proberVars, output, consumed, probes>>

\* the supervisor closing the result queue without waiting for the workers
QSupervisor_NoWait ==
  /\ QuietBulk /\ ~exited
  /\ spc = "wait"
  /\ resultsClosed' = TRUE
  /\ spc' = "done"
  /\ UNCHANGED <<jobs, jobsClosed, results, doneClosed, workerVars, readerVars,
                 fwdVars, jobCount, mpc, uiVars, exited, flagVars, proberVars, output,
                 consumed, probes>>

\* wg.Wait(); close(results)
QSupervisor ==
  /\ QuietBulk /\ ~exited
  /\ spc = "wait"
  /\ wgCount = 0
  /\ resultsClosed' = TRUE
  /\ spc' = "done"
  /\ UNCHANGED <<jobs, jobsClosed, results, doneClosed, workerVars, readerVars,
                 fwdVars, jobCount, mpc, uiVars, exited, flagVars, proberVars, output,
                 consumed, probes>>

\* scanner.Scan() returns a line
QReaderScan ==
  /\ QuietBulk /\ ~exited
  /\ rpc = "scan"
  /\ linesRead < stdinLines
  /\ \E line \in Lines :
       LET domain == TrimSpace(line) IN
         /\ linesRead' = linesRead + 1
         /\ IF domain # <<>>
              THEN /\ rjob' = [id |-> linesRead + 1, domain |-> domain]
                   /\ accepted' = accepted \cup {linesRead + 1}
                   /\ rpc' = "enqueue"
              ELSE UNCHANGED <<rjob, accepted, rpc>>
  /\ UNCHANGED <<chanVars, workerVars, spc, count, skipped, fwdVars, jobCount,
                 mpc, uiVars, exited, flagVars, proberVars, output, consumed, probes>>

\* jobs <- domain
QReaderEnqueue ==
  /\ QuietBulk /\ ~exited
  /\ rpc = "enqueue"
  /\ ~jobsClosed
  /\ Len(jobs) < chanCap
  /\ jobs' = Append(jobs, rjob)
  /\ rjob' = NoJob
  /\ rpc' = "scan"
  /\ UNCHANGED <<jobsClosed, results, resultsClosed, doneClosed, workerVars,
                 spc, linesRead, count, skipped, accepted, fwdVars, jobCount,
                 mpc, uiVars, exited, flagVars, proberVars, output, consumed, probes>>

\* the reader returning without close(jobs)
QReaderClose_NoClose ==
  /\ QuietBulk /\ ~exited
  /\ rpc = "scan"
  /\ rpc' = "done"
  /\ UNCHANGED <<chanVars, workerVars, spc, rjob, linesRead, count, skipped,
                 accepted, fwdVars, jobCount, mpc, uiVars, exited, flagVars, proberVars,
                 output, consumed, probes>>

\* scanner.Scan() returns false (end of input or a read error); close(jobs)
QReaderClose ==
  /\ QuietBulk /\ ~exited
  /\ rpc = "scan"
  /\ jobsClosed' = TRUE
  /\ rpc' = "done"
  /\ UNCHANGED <<jobs, results, resultsClosed, doneClosed, workerVars, spc,
                 rjob, linesRead, count, skipped, accepted, fwdVars, jobCount,
                 mpc, uiVars, exited, flagVars, proberVars, output, consumed, probes>>

\* the condition under which the bulk loops print a CSV line
printsCSV(r) == r.found /\ (r.canRead \/ r.awsRead)

\* the loop taking the newest result of the buffer instead of the oldest
QConsume_Newest ==
  /\ QuietBulk /\ ~exited
  /\ mpc = "run"
  /\ results # <<>>
  /\ LET result == results[Len(results)] IN
       /\ results' = SubSeq(results, 1, Len(results) - 1)
       /\ stats' = increment(stats, result.found, result.canRead,
                             result.canWrite, result.awsRead)
       /\ output' = IF result.found /\ (result.canRead \/ result.awsRead)
                      THEN Append(output, csvLine(result)) ELSE output
       /\ consumed' = Append(consumed, result)
  /\ UNCHANGED <<jobs, jobsClosed, resultsClosed, doneClosed, workerVars, spc,
                 readerVars, fwdVars, jobCount, mpc, uiState, userQuit, m,
                 exited, flagVars, proberVars, probes>>

\* for result := range results { stats.increment(...); if ... Printf }
QConsume ==
  /\ QuietBulk /\ ~exited
  /\ mpc = "run"
  /\ results # <<>>
  /\ LET result == Head(results) IN
       /\ results' = Tail(results)
       /\ stats' = increment(stats, result.found, result.canRead,
                             result.canWrite, result.awsRead)
       /\ output' = IF printsCSV(result)
                      THEN Append(output, csvLine(result)) ELSE output
       /\ consumed' = Append(consumed, result)
  /\ UNCHANGED <<jobs, jobsClosed, resultsClosed, doneClosed, workerVars, spc,
                 readerVars, fwdVars, jobCount, mpc, uiState, userQuit, m,
                 exited, flagVars, proberVars, probes>>

\* range results ends
rangeResultsEnds == resultsClosed /\ results = <<>>

\* the loop ends; return
QConsumeEnd ==
  /\ QuietBulk /\ ~exited
  /\ mpc = "run"
  /\ rangeResultsEnds
  /\ mpc' = "done"
  /\ exited' = TRUE
  /\ UNCHANGED <<chanVars, workerVars, spc, readerVars, fwdVars, jobCount,
                 uiVars, flagVars, proberVars, output, consumed, probes>>

\* ----------------------------------------------------- single domain -----
\* the non-quiet report: "Found bucket ..." with its three lines, or "not found"
reportLines(r) ==
  IF r.found
    THEN [kind |-> "found", domain |-> r.domain, canRead |-> r.canRead,
          canWrite |-> r.canWrite, awsRead |-> r.awsRead]
    ELSE [kind |-> "notfound", domain |-> r.domain, canRead |-> FALSE,
          canWrite |-> FALSE, awsRead |-> FALSE]

\* no pipe and no argument: usage, os.Exit(1)
SingleUsage ==
  /\ SingleDomain /\ ~exited
  /\ mpc = "run"
  /\ args = <<>>
  /\ mpc' = "usage"
  /\ exited' = TRUE
  /\ UNCHANGED <<chanVars, workerVars, spc, readerVars, fwdVars, jobCount,
                 uiVars, flagVars, proberVars, output, consumed, probes>>

\* result := analyzeBucket(args[0]); quiet mode prints the CSV line
SingleRun ==
  /\ SingleDomain /\ ~exited
  /\ mpc = "run"
  /\ args # <<>>
  /\ \E o \in ListingOutcomes :
       LET result == analyzeBucket(1, args[1], o) IN
         /\ consumed' = Append(consumed, result)
         /\ output' = IF quietMode THEN Append(output, csvLine(result))
                      ELSE Append(output, reportLines(result))
         /\ penv' = listed(o)
  /\ probes' = probes \cup {1}
  /\ mpc' = "done"
  /\ exited' = TRUE
  /\ UNCHANGED <<chanVars, workerVars, spc, readerVars, fwdVars, jobCount,
                 uiVars, flagVars, pres, pcalls, bulk002Vars>>

\* -------------------------------------------------- interactive (TUI) ----
badges(r) ==
  (IF r.canRead THEN <<"READ">> ELSE <<>>) \o
  (IF r.canWrite THEN <<"WRITE">> ELSE <<>>) \o
  (IF r.awsRead THEN <<"AWS">> ELSE <<>>)

\* model.Update, case Result
UpdateResult(mm, r) ==
  [mm EXCEPT
     !.foundBuckets =
        IF r.found /\ (r.canRead \/ r.awsRead)
          THEN Append(@, [domain |-> r.domain, badges |-> badges(r)])
          ELSE @,
     !.testing = r.domain]

\* model.Update, case string; every message sent is a "Debug: ..." line, whose
\* text is not modelled
UpdateDebug(mm) == [mm EXCEPT !.debug = "Debug"]

\* model.Update, case bool
UpdateCompletion(mm) == [mm EXCEPT !.processing = FALSE, !.done = TRUE]

\* model.Update, case tea.KeyMsg "q" / "ctrl+c"
UpdateQuitKey(mm) == [mm EXCEPT !.done = TRUE]

\* p.Send(msg): handed to the event loop, which calls Update; a no-op once
\* the program has terminated.
SendResult(r) ==
  IF uiState = "stopped"
    THEN UNCHANGED <<m, stats, consumed, uiState>>
    ELSE /\ stats' = increment(stats, r.found, r.canRead, r.canWrite, r.awsRead)
         /\ m' = UpdateResult(m, r)
         /\ consumed' = Append(consumed, r)
         /\ UNCHANGED uiState

SendDebug ==
  IF uiState = "stopped"
    THEN UNCHANGED <<m, stats, consumed, uiState>>
    ELSE /\ m' = UpdateDebug(m)
         /\ UNCHANGED <<stats, consumed, uiState>>

SendCompletion ==
  IF uiState = "stopped"
    THEN UNCHANGED <<m, stats, consumed, uiState>>
    ELSE /\ m' = UpdateCompletion(m)
         /\ uiState' = "quitting"
         /\ UNCHANGED <<stats, consumed>>

\* for domain := range jobs
IWorkerRecv(w) ==
  /\ Interactive /\ ~exited
  /\ wpc[w] = "idle"
  /\ jobs # <<>>
  /\ wjob' = [wjob EXCEPT ![w] = held(Head(jobs), userQuit)]
  /\ jobs' = Tail(jobs)
  /\ wpc' = [wpc EXCEPT ![w] = "check"]
  /\ UNCHANGED <<jobsClosed, results, resultsClosed, doneClosed, wgCount, wres,
                 spc, readerVars, fwdVars, jobCount, mpc, uiVars, exited,
                 flagVars, proberVars, output, consumed, probes>>

\* select { case <-done: return; default: analyzeBucket(domain) is called }
IWorkerCheck(w) ==
  /\ Interactive /\ ~exited
  /\ wpc[w] = "check"
  /\ IF doneClosed
       THEN /\ wpc' = [wpc EXCEPT ![w] = "done"]
            /\ wgCount' = wgCount - 1
            /\ wjob' = [wjob EXCEPT ![w] = NoHeld]
            /\ UNCHANGED probes
       ELSE /\ wpc' = [wpc EXCEPT ![w] = "probing"]
            /\ probes' = probes \cup {wjob[w].id}
            /\ UNCHANGED <<wgCount, wjob>>
  /\ UNCHANGED <<chanVars, wres, spc, readerVars, fwdVars, jobCount, mpc,
                 uiVars, exited, flagVars, proberVars, output, consumed>>

\* analyzeBucket(domain) returns
IWorkerProbe(w) ==
  /\ Interactive /\ ~exited
  /\ wpc[w] = "probing"
  /\ \E o \in ListingOutcomes :
       wres' = [wres EXCEPT ![w] = analyzeBucket(wjob[w].id, wjob[w].domain, o)]
  /\ wjob' = [wjob EXCEPT ![w] = NoHeld]
  /\ wpc' = [wpc EXCEPT ![w] = "sending"]
  /\ UNCHANGED <<chanVars, wgCount, spc, readerVars, fwdVars, jobCount, mpc,
                 uiVars, exited, flagVars, proberVars, output, consumed, probes>>

\* select { case results <- result: jobCount.Add(1); case <-done: return }
IWorkerSend(w) ==
  /\ Interactive /\ ~exited
  /\ wpc[w] = "sending"
  /\ \E viaDone \in BOOLEAN :
       IF viaDone
         THEN /\ doneClosed
              /\ wpc' = [wpc EXCEPT ![w] = "done"]
              /\ wgCount' = wgCount - 1
              /\ UNCHANGED <<results, jobCount>>
         ELSE /\ ~resultsClosed /\ Len(results) < chanCap
              /\ results' = Append(results, wres[w])
              /\ jobCount' = jobCount + 1
              /\ wpc' = [wpc EXCEPT ![w] = "idle"]
              /\ UNCHANGED wgCount
  /\ wres' = [wres EXCEPT ![w] = NoResult]
  /\ UNCHANGED <<jobs, jobsClosed, resultsClosed, doneClosed, wjob, spc,
                 readerVars, fwdVars, mpc, uiVars, exited, flagVars, proberVars, output,
                 consumed, probes>>

\* range jobs ends; p.Send("Debug: Worker %d finished"); defer wg.Done()
IWorkerExit(w) ==
  /\ Interactive /\ ~exited
  /\ wpc[w] = "idle"
  /\ jobsClosed /\ jobs = <<>>
  /\ SendDebug
  /\ wpc' = [wpc EXCEPT ![w] = "done"]
  /\ wgCount' = wgCount - 1
  /\ UNCHANGED <<chanVars, wjob, wres, spc, readerVars, fwdVars, jobCount, mpc,
                 userQuit, exited, flagVars, proberVars, output, probes>>

\* the supervisor going on without wg.Wait()
ISupervisorWait_NoWait ==
  /\ Interactive /\ ~exited
  /\ spc = "wait"
  /\ SendDebug
  /\ spc' = "closeResults"
  /\ UNCHANGED <<chanVars, workerVars, readerVars, fwdVars, jobCount, mpc,
                 userQuit, exited, flagVars, proberVars, output, probes>>

\* wg.Wait(); p.Send("Debug: All workers finished")
ISupervisorWait ==
  /\ Interactive /\ ~exited
  /\ spc = "wait"
  /\ wgCount = 0
  /\ SendDebug
  /\ spc' = "closeResults"
  /\ UNCHANGED <<chanVars, workerVars, readerVars, fwdVars, jobCount, mpc,
                 userQuit, exited, flagVars, proberVars, output, probes>>

\* close(results)
ISupervisorCloseResults ==
  /\ Interactive /\ ~exited
  /\ spc = "closeResults"
  /\ resultsClosed' = TRUE
  /\ spc' = "closeDone"
  /\ UNCHANGED <<jobs, jobsClosed, results, doneClosed, workerVars, readerVars,
                 fwdVars, jobCount, mpc, uiVars, exited, flagVars, proberVars, output,
                 consumed, probes>>

\* close(done)
ISupervisorCloseDone ==
  /\ Interactive /\ ~exited
  /\ spc = "closeDone"
  /\ doneClosed' = TRUE
  /\ spc' = "done"
  /\ UNCHANGED <<jobs, jobsClosed, results, resultsClosed, workerVars,
                 readerVars, fwdVars, jobCount, mpc, uiVars, exited, flagVars, proberVars,
                 output, consumed, probes>>

\* for result := range results
IForwarderRecv ==
  /\ Interactive /\ ~exited
  /\ fpc = "recv"
  /\ results # <<>>
  /\ fres' = Head(results)
  /\ results' = Tail(results)
  /\ fpc' = "check"
  /\ UNCHANGED <<jobs, jobsClosed, resultsClosed, doneClosed, workerVars, spc,
                 readerVars, jobCount, mpc, uiVars, exited, flagVars, proberVars, output,
                 consumed, probes>>

\* select { case <-done: return; default: p.Send(result) }
IForwarderCheck ==
  /\ Interactive /\ ~exited
  /\ fpc = "check"
  /\ IF doneClosed
       THEN /\ fpc' = "done"
            /\ UNCHANGED <<m, stats, consumed, uiState>>
       ELSE /\ SendResult(fres)
            /\ fpc' = "recv"
  /\ fres' = NoResult
  /\ UNCHANGED <<chanVars, workerVars, spc, readerVars, jobCount, mpc,
                 userQuit, exited, flagVars, proberVars, output, probes>>

\* range results ends; p.Send("Debug: Processed %d results")
IForwarderEnd ==
  /\ Interactive /\ ~exited
  /\ fpc = "recv"
  /\ rangeResultsEnds
  /\ SendDebug
  /\ fpc' = "signal"
  /\ UNCHANGED <<chanVars, workerVars, spc, readerVars, fres, jobCount, mpc,
                 userQuit, exited, flagVars, proberVars, output, probes>>

\* p.Send(false)
IForwarderSignal ==
  /\ Interactive /\ ~exited
  /\ fpc = "signal"
  /\ SendCompletion
  /\ fpc' = "done"
  /\ UNCHANGED <<chanVars, workerVars, spc, readerVars, fres, jobCount, mpc,
                 userQuit, exited, flagVars, proberVars, output, probes>>

\* scanner.Scan() returns a line; select { case <-done: ...; default: ... }
IReaderScan ==
  /\ Interactive /\ ~exited
  /\ rpc = "scan"
  /\ linesRead < stdinLines
  /\ linesRead' = linesRead + 1
  /\ \E line \in Lines :
       LET domain == TrimSpace(line) IN
         IF doneClosed
           THEN /\ SendDebug
                /\ rpc' = "close"
                /\ UNCHANGED <<rjob, count, skipped, accepted>>
         ELSE IF domain # <<>> /\ ~HasPrefix(domain, "*")
           THEN /\ count' = count + 1
                /\ rjob' = [id |-> linesRead + 1, domain |-> domain]
                /\ accepted' = accepted \cup {linesRead + 1}
                /\ rpc' = "enqueue"
                /\ UNCHANGED <<skipped, m, stats, consumed, uiState>>
         ELSE /\ skipped' = IF HasPrefix(domain, "*") THEN skipped + 1
                            ELSE skipped
              /\ UNCHANGED <<rjob, count, accepted, rpc, m, stats, consumed,
                             uiState>>
  /\ UNCHANGED <<chanVars, workerVars, spc, fwdVars, jobCount, mpc, userQuit,
                 exited, flagVars, proberVars, output, probes>>

\* select { case jobs <- domain: ...; case <-done: ...; return }
IReaderEnqueue ==
  /\ Interactive /\ ~exited
  /\ rpc = "enqueue"
  /\ \E viaDone \in BOOLEAN :
       IF viaDone
         THEN /\ doneClosed
              /\ SendDebug
              /\ rpc' = "close"
              /\ UNCHANGED jobs
         ELSE /\ ~jobsClosed /\ Len(jobs) < chanCap
              /\ jobs' = Append(jobs, rjob)
              /\ IF count % 10 = 0
                   THEN SendDebug
                   ELSE UNCHANGED <<m, stats, consumed, uiState>>
              /\ rpc' = "scan"
  /\ rjob' = NoJob
  /\ UNCHANGED <<jobsClosed, results, resultsClosed, doneClosed, workerVars,
                 spc, linesRead, count, skipped, accepted, fwdVars, jobCount,
                 mpc, userQuit, exited, flagVars, proberVars, output, probes>>

\* the reader returning at the end of input without the deferred close(jobs)
IReaderEnd_NoDefer ==
  /\ Interactive /\ ~exited
  /\ rpc = "scan"
  /\ SendDebug
  /\ rpc' = "done"
  /\ UNCHANGED <<chanVars, workerVars, spc, rjob, linesRead, count, skipped,
                 accepted, fwdVars, jobCount, mpc, userQuit, exited, flagVars,
                 proberVars, output, probes>>

\* scanner.Scan() returns false: p.Send of the scanner error, or of the total
IReaderEnd ==
  /\ Interactive /\ ~exited
  /\ rpc = "scan"
  /\ SendDebug
  /\ rpc' = "close"
  /\ UNCHANGED <<chanVars, workerVars, spc, rjob, linesRead, count, skipped,
                 accepted, fwdVars, jobCount, mpc, userQuit, exited, flagVars, proberVars,
                 output, probes>>

\* the deferred close(jobs); p.Send("Debug: Jobs channel closed")
IReaderClose ==
  /\ Interactive /\ ~exited
  /\ rpc = "close"
  /\ jobsClosed' = TRUE
  /\ SendDebug
  /\ rpc' = "done"
  /\ UNCHANGED <<jobs, results, resultsClosed, doneClosed, workerVars, spc,
                 rjob, linesRead, count, skipped, accepted, fwdVars, jobCount,
                 mpc, userQuit, exited, flagVars, proberVars, output, probes>>

\* the quit key handled with the counters reset
KeyQuit_ResetsStats ==
  /\ Interactive /\ ~exited
  /\ uiState \in {"running", "quitting"}
  /\ m' = UpdateQuitKey(m)
  /\ uiState' = "quitting"
  /\ userQuit' = TRUE
  /\ stats' = ZeroStats
  /\ UNCHANGED <<chanVars, workerVars, spc, readerVars, fwdVars, jobCount, mpc,
                 exited, flagVars, proberVars, output, consumed, probes>>

\* the quit key handled with close(done)
KeyQuit_ClosesDone ==
  /\ Interactive /\ ~exited
  /\ uiState \in {"running", "quitting"}
  /\ m' = UpdateQuitKey(m)
  /\ uiState' = "quitting"
  /\ userQuit' = TRUE
  /\ doneClosed' = TRUE
  /\ UNCHANGED <<jobs, jobsClosed, results, resultsClosed, workerVars, spc,
                 readerVars, fwdVars, jobCount, mpc, stats, exited, flagVars,
                 proberVars, output, consumed, probes>>

\* the user presses "q" or ctrl+c: Update sets m.done and returns tea.Quit
KeyQuit ==
  /\ Interactive /\ ~exited
  /\ uiState \in {"running", "quitting"}
  /\ m' = UpdateQuitKey(m)
  /\ uiState' = "quitting"
  /\ userQuit' = TRUE
  /\ UNCHANGED <<chanVars, workerVars, spc, readerVars, fwdVars, jobCount, mpc,
                 stats, exited, flagVars, proberVars, output, consumed, probes>>

\* the event loop handles the quit message: the program terminates
ProgramQuit ==
  /\ Interactive /\ ~exited
  /\ uiState = "quitting"
  /\ uiState' = "stopped"
  /\ UNCHANGED <<chanVars, workerVars, spc, readerVars, fwdVars, jobCount, mpc,
                 userQuit, stats, m, exited, flagVars, proberVars, output, consumed, probes>>

\* p.Run() returns; main returns
MainReturn ==
  /\ Interactive /\ ~exited
  /\ uiState = "stopped"
  /\ mpc' = "done"
  /\ exited' = TRUE
  /\ UNCHANGED <<chanVars, workerVars, spc, readerVars, fwdVars, jobCount,
                 uiVars, flagVars, proberVars, output, consumed, probes>>

\* no goroutine spawned, nothing read, nothing printed
NothingSpawned ==
  /\ jobs = <<>> /\ jobsClosed = FALSE
  /\ results = <<>> /\ resultsClosed = FALSE
  /\ doneClosed = FALSE
  /\ wgCount = 0
  /\ wpc = [w \in WorkerIds |-> "off"]
  /\ wjob = [w \in WorkerIds |-> NoHeld]
  /\ wres = [w \in WorkerIds |-> NoResult]
  /\ spc = "off" /\ rpc = "off" /\ fpc = "off"
  /\ rjob = NoJob /\ fres = NoResult
  /\ linesRead = 0 /\ count = 0 /\ skipped = 0
  /\ jobCount = 0
  /\ uiState = "idle" /\ userQuit = FALSE /\ exited = FALSE
  /\ m = InitModel
  /\ output = <<>> /\ consumed = <<>>
  /\ accepted = {} /\ probes = {}

NothingStarted == NothingSpawned /\ stats = ZeroStats

\* ------------------------------------- part_002, single-name path -----
\* part_002's main, no pipe: the flags are parsed, nothing has run
Part002Init ==
  /\ quietMode \in BOOLEAN
  /\ isPipe = FALSE
  /\ args \in {<<>>} \cup {<<a>> : a \in Args}
  /\ requested = MinWorkerCount
  /\ workers = clampWorkers(requested)
  /\ stdinLines = MaxLines
  /\ mpc = "part002"
  /\ NothingStarted
  /\ penv \in Envs
  /\ pres = NoResult2
  /\ pcalls = <<>>
  /\ NoBulk002

\* len(args) != 1: usage, os.Exit(1)
Part002Usage ==
  /\ mpc = "part002"
  /\ args = <<>>
  /\ mpc' = "usage"
  /\ exited' = TRUE
  /\ UNCHANGED <<chanVars, workerVars, spc, readerVars, fwdVars, jobCount,
                 uiVars, flagVars, proberVars, output, consumed, probes>>

\* cleanDomain(args[0]) is empty: main returns without probing
Part002Skip ==
  /\ mpc = "part002"
  /\ args # <<>>
  /\ cleanDomain_part002(args[1]) = <<>>
  /\ mpc' = "done"
  /\ exited' = TRUE
  /\ UNCHANGED <<chanVars, workerVars, spc, readerVars, fwdVars, jobCount,
                 uiVars, flagVars, proberVars, output, consumed, probes>>

\* result := analyzeBucket(domain, *quietMode); stats.increment(...)
Part002Run ==
  /\ mpc = "part002"
  /\ args # <<>>
  /\ LET domain == cleanDomain_part002(args[1])
         a == analyzeBucket_part002(domain, quietMode, penv)
     IN /\ domain # <<>>
        /\ pres' = a.result
        /\ pcalls' = a.calls
        /\ output' = a.out
        /\ stats' = increment(stats, a.result.found, a.result.canRead,
                              a.result.canWrite, a.result.awsRead)
  /\ mpc' = "done"
  /\ exited' = TRUE
  /\ UNCHANGED <<chanVars, workerVars, spc, readerVars, fwdVars, jobCount,
                 uiState, userQuit, m, flagVars, penv, bulk002Vars, consumed,
                 probes>>

Init == MainInit \/ Part002Init

\* ----------------------------------------------------------- the program --
Next ==
  \/ \E w \in WorkerIds : QWorkerRecv(w)
  \/ \E w \in WorkerIds : QWorkerProbe(w)
  \/ \E w \in WorkerIds : QWorkerSend(w)
  \/ \E w \in WorkerIds : QWorkerExit(w)
  \/ QSupervisor
  \/ QReaderScan
  \/ QReaderEnqueue
  \/ QReaderClose
  \/ QConsume
  \/ QConsumeEnd
  \/ SingleUsage
  \/ SingleRun
  \/ \E w \in WorkerIds : IWorkerRecv(w)
  \/ \E w \in WorkerIds : IWorkerCheck(w)
  \/ \E w \in WorkerIds : IWorkerProbe(w)
  \/ \E w \in WorkerIds : IWorkerSend(w)
  \/ \E w \in WorkerIds : IWorkerExit(w)
  \/ ISupervisorWait
  \/ ISupervisorCloseResults
  \/ ISupervisorCloseDone
  \/ IForwarderRecv
  \/ IForwarderCheck
  \/ IForwarderEnd
  \/ IForwarderSignal
  \/ IReaderScan
  \/ IReaderEnqueue
  \/ IReaderEnd
  \/ IReaderClose
  \/ KeyQuit
  \/ ProgramQuit
  \/ MainReturn
  \/ Part002Usage
  \/ Part002Skip
  \/ Part002Run

Spec == Init /\ [][Next]_vars

\* ------------------------------------------ the quiet-mode scan, fairly --
QuietInit == Init /\ isPipe /\ quietMode

QWorker(w) ==
  QWorkerRecv(w) \/ QWorkerProbe(w) \/ QWorkerSend(w) \/ QWorkerExit(w)
QReader == QReaderScan \/ QReaderEnqueue \/ QReaderClose
QMain == QConsume \/ QConsumeEnd

QuietNext ==
  \/ \E w \in WorkerIds : QWorkerRecv(w)
  \/ \E w \in WorkerIds : QWorkerProbe(w)
  \/ \E w \in WorkerIds : QWorkerSend(w)
  \/ \E w \in WorkerIds : QWorkerExit(w)
  \/ QSupervisor
  \/ QReaderScan
  \/ QReaderEnqueue
  \/ QReaderClose
  \/ QConsume
  \/ QConsumeEnd

\* The Go scheduler runs every runnable goroutine; stdin is finite and
\* analyzeBucket returns.
QuietFairness ==
  /\ \A w \in WorkerIds : WF_vars(QWorker(w))
  /\ WF_vars(QSupervisor)
  /\ WF_vars(QReader)
  /\ WF_vars(QMain)

QuietFairSpec == QuietInit /\ [][QuietNext]_vars /\ QuietFairness

SpawnedWorkers == 1..workers

QuietTerminated ==
  /\ rpc = "done" /\ jobsClosed
  /\ \A w \in SpawnedWorkers : wpc[w] = "done"
  /\ spc = "done" /\ resultsClosed
  /\ mpc = "done"

\* --------------------------------------------------- the -w clamp alone --
\* -w values given on the command line
RequestedWorkers == ((0 - 5)..(MaxWorkerCount + 5)) \cup {500}

\* ----------------------------------------------- long quiet scan ------
\* the quiet pipeline with the smallest worker count and FloodLines lines on
\* stdin, more than its queues and goroutines can hold
FloodInit ==
  /\ quietMode = TRUE
  /\ isPipe = TRUE
  /\ args = <<>>
  /\ requested = MinWorkerCount
  /\ workers = clampWorkers(requested)
  /\ stdinLines = FloodLines
  /\ MainStarted

FloodSpec == FloodInit /\ [][QuietNext]_vars

\* ------------------------------------------ part_002, bulk scan ------
\* lines of stdin, and the collaborator answers drawn for a bulk probe
Lines002 == { <<"a">>, <<" ">> }
Inputs002 == UNION { [1..n -> Lines002] : n \in 0..MaxLines }
BulkEnvs ==
  { e \in Envs : /\ e.err /\ e.stdout = <<>> /\ e.head \in {"404", "200"}
                 /\ e.get = "200" /\ e.put = "403" /\ ~e.xml
                 /\ e.answer = "n" /\ ~e.syncErr }

RECURSIVE cleaned(_)
cleaned(lines) ==
  IF lines = <<>> THEN <<>>
  ELSE LET domain == cleanDomain_part002(Head(lines)) IN
    (IF domain # <<>> THEN <<domain>> ELSE <<>>) \o cleaned(Tail(lines))

min(a, b) == IF a < b THEN a ELSE b

\* part_002's main, stdin is a pipe: the flags are parsed and clamped
Bulk002Init ==
  /\ quietMode \in BOOLEAN
  /\ isPipe = TRUE
  /\ args = <<>>
  /\ requested \in 0..MaxWorkers
  /\ workers = clampWorkers(requested)
  /\ stdinLines = MaxLines
  /\ mpc = "read"
  /\ NothingStarted
  /\ penv = NoEnv /\ pres = NoResult2 /\ pcalls = <<>>
  /\ NoBulk002

\* the scanner loop, make(chan ..., len(domains)), wg.Add(workerCount), the
\* go worker statements, the loop that fills jobs, close(jobs) and
\* go processResults
Bulk002Start ==
  /\ mpc = "read"
  /\ \E lines \in Inputs002 :
       LET ds == cleaned(lines)
           workerCount == min(workers, Len(ds))
       IN /\ domains' = ds
          /\ linesRead' = Len(lines)
          /\ wgCount' = workerCount
          /\ wpc' = [w \in WorkerIds |->
                       IF w <= workerCount THEN "idle" ELSE "off"]
          /\ jobs' = [i \in 1..Len(ds) |-> [id |-> i, domain |-> ds[i]]]
  /\ jobsClosed' = TRUE
  /\ ppc' = "recv"
  /\ mpc' = "wait"
  /\ UNCHANGED <<results, resultsClosed, doneClosed, wjob, wres, spc, rpc,
                 rjob, count, skipped, accepted, fwdVars, jobCount, uiVars,
                 exited, flagVars, penv, pres, pcalls, pheld, processed,
                 summary, output, consumed, probes>>

\* scanner.Err() != nil: os.Exit(1)
Bulk002ReadError ==
  /\ mpc = "read"
  /\ mpc' = "failed"
  /\ exited' = TRUE
  /\ UNCHANGED <<chanVars, workerVars, spc, readerVars, fwdVars, jobCount,
                 uiVars, flagVars, proberVars, output, consumed, probes>>

\* worker: for domain := range jobs
Worker002Recv(w) ==
  /\ mpc \in {"wait", "summary"} /\ ~exited
  /\ wpc[w] = "idle"
  /\ jobs # <<>>
  /\ wjob' = [wjob EXCEPT ![w] = held(Head(jobs), FALSE)]
  /\ jobs' = Tail(jobs)
  /\ wpc' = [wpc EXCEPT ![w] = "probing"]
  /\ probes' = probes \cup {Head(jobs).id}
  /\ UNCHANGED <<jobsClosed, results, resultsClosed, doneClosed, wgCount, wres,
                 spc, readerVars, fwdVars, jobCount, mpc, uiVars, exited,
                 flagVars, proberVars, output, consumed>>

\* worker: analyzeBucket(domain, quietMode) returns
Worker002Probe(w) ==
  /\ mpc \in {"wait", "summary"} /\ ~exited
  /\ wpc[w] = "probing"
  /\ \E env \in BulkEnvs :
       LET a == analyzeBucket_part002(wjob[w].domain, quietMode, env) IN
         /\ wres' = [wres EXCEPT ![w] = a.result]
         /\ output' = output \o a.out
  /\ wjob' = [wjob EXCEPT ![w] = NoHeld]
  /\ wpc' = [wpc EXCEPT ![w] = "sending"]
  /\ UNCHANGED <<chanVars, wgCount, spc, readerVars, fwdVars, jobCount, mpc,
                 uiVars, exited, flagVars, proberVars, consumed, probes>>

\* worker: results <- ...
Worker002Send(w) ==
  /\ mpc \in {"wait", "summary"} /\ ~exited
  /\ wpc[w] = "sending"
  /\ ~resultsClosed
  /\ Len(results) < Len(domains)
  /\ results' = Append(results, wres[w])
  /\ wres' = [wres EXCEPT ![w] = NoResult]
  /\ wpc' = [wpc EXCEPT ![w] = "idle"]
  /\ UNCHANGED <<jobs, jobsClosed, resultsClosed, doneClosed, wgCount, wjob,
                 spc, readerVars, fwdVars, jobCount, mpc, uiVars, exited,
                 flagVars, proberVars, output, consumed, probes>>

\* worker: range jobs ends; defer wg.Done()
Worker002Exit(w) ==
  /\ mpc \in {"wait", "summary"} /\ ~exited
  /\ wpc[w] = "idle"
  /\ jobsClosed /\ jobs = <<>>
  /\ wpc' = [wpc EXCEPT ![w] = "done"]
  /\ wgCount' = wgCount - 1
  /\ UNCHANGED <<chanVars, wjob, wres, spc, readerVars, fwdVars, jobCount, mpc,
                 uiVars, exited, flagVars, proberVars, output, consumed,
                 probes>>

\* processResults: for result := range results
ProcessRecv ==
  /\ ppc = "recv" /\ ~exited
  /\ results # <<>>
  /\ pheld' = Head(results)
  /\ results' = Tail(results)
  /\ ppc' = "total"
  /\ UNCHANGED <<jobs, jobsClosed, resultsClosed, doneClosed, workerVars, spc,
                 readerVars, fwdVars, jobCount, mpc, uiVars, exited, flagVars,
                 penv, pres, pcalls, domains, processed, summary, output,
                 consumed, probes>>

\* processResults: range results ends on the closed, empty channel
ProcessEnd ==
  /\ ppc = "recv" /\ ~exited
  /\ resultsClosed /\ results = <<>>
  /\ ppc' = "done"
  /\ UNCHANGED <<chanVars, workerVars, spc, readerVars, fwdVars, jobCount, mpc,
                 uiVars, exited, flagVars, penv, pres, pcalls, domains, pheld,
                 processed, summary, output, consumed, probes>>

\* the atomic.AddInt32 calls that follow the one at ppc, in increment's order
nextAdd(at, r) ==
  LET after ==
        IF at = "total" THEN <<"kind", "withRead", "withWrite", "withAwsRead">>
        ELSE IF at = "kind" THEN <<"withRead", "withWrite", "withAwsRead">>
        ELSE IF at = "withRead" THEN <<"withWrite", "withAwsRead">>
        ELSE IF at = "withWrite" THEN <<"withAwsRead">>
        ELSE <<>>
      due(c) ==
        \/ c = "kind"
        \/ r.found /\ c = "withRead" /\ r.canRead
        \/ r.found /\ c = "withWrite" /\ r.canWrite
        \/ r.found /\ c = "withAwsRead" /\ r.awsRead
      todo == SelectSeq(after, due)
  IN IF todo = <<>> THEN "print" ELSE Head(todo)

\* Stats.increment of part_002: one atomic.AddInt32 call
ProcessAdd ==
  /\ ppc \in {"total", "kind", "withRead", "withWrite", "withAwsRead"}
  /\ ~exited
  /\ LET c == IF ppc # "kind" THEN ppc
              ELSE IF pheld.found THEN "found" ELSE "notFound"
     IN stats' = [stats EXCEPT ![c] = @ + 1]
  /\ ppc' = nextAdd(ppc, pheld)
  /\ UNCHANGED <<chanVars, workerVars, spc, readerVars, fwdVars, jobCount, mpc,
                 uiState, userQuit, m, exited, flagVars, penv, pres, pcalls,
                 domains, pheld, processed, summary, output, consumed, probes>>

\* processResults: the CSV line in quiet mode; processed++; break at total
ProcessPrint ==
  /\ ppc = "print" /\ ~exited
  /\ output' = IF quietMode /\ (pheld.canRead \/ pheld.canWrite \/ pheld.awsRead)
                 THEN Append(output, csvLine(pheld)) ELSE output
  /\ consumed' = Append(consumed, pheld)
  /\ processed' = processed + 1
  /\ pheld' = NoResult2
  /\ ppc' = IF processed + 1 = Len(domains) THEN "done" ELSE "recv"
  /\ UNCHANGED <<chanVars, workerVars, spc, readerVars, fwdVars, jobCount, mpc,
                 uiVars, exited, flagVars, penv, pres, pcalls, domains,
                 summary, probes>>

\* main: wg.Wait(); close(results); without -q main returns here
Bulk002Close ==
  /\ mpc = "wait" /\ ~exited
  /\ wgCount = 0
  /\ resultsClosed' = TRUE
  /\ mpc' = IF quietMode THEN "summary" ELSE "done"
  /\ exited' = ~quietMode
  /\ UNCHANGED <<jobs, jobsClosed, results, doneClosed, workerVars, spc,
                 readerVars, fwdVars, jobCount, uiVars, flagVars, proberVars,
                 output, consumed, probes>>

\* the arguments of the summary Printf, in the order they are read
SummaryFields ==
  <<"total", "found", "withRead", "withWrite", "withAwsRead", "notFound">>

\* main: one counter is read for the "# Summary" line
Bulk002SummaryRead ==
  /\ mpc = "summary" /\ ~exited
  /\ Len(summary) < Len(SummaryFields)
  /\ summary' = Append(summary, stats[SummaryFields[Len(summary) + 1]])
  /\ UNCHANGED <<chanVars, workerVars, spc, readerVars, fwdVars, jobCount, mpc,
                 uiVars, exited, flagVars, penv, pres, pcalls, domains, ppc,
                 pheld, processed, output, consumed, probes>>

\* main: the "# Summary" line is printed; main returns
Bulk002SummaryPrint ==
  /\ mpc = "summary" /\ ~exited
  /\ Len(summary) = Len(SummaryFields)
  /\ output' = Append(output, [kind |-> "summary", counters |-> summary])
  /\ mpc' = "done"
  /\ exited' = TRUE
  /\ UNCHANGED <<chanVars, workerVars, spc, readerVars, fwdVars, jobCount,
                 uiVars, flagVars, proberVars, consumed, probes>>

Bulk002Next ==
  \/ Bulk002Start
  \/ Bulk002ReadError
  \/ \E w \in WorkerIds : Worker002Recv(w)
  \/ \E w \in WorkerIds : Worker002Probe(w)
  \/ \E w \in WorkerIds : Worker002Send(w)
  \/ \E w \in WorkerIds : Worker002Exit(w)
  \/ ProcessRecv
  \/ ProcessEnd
  \/ ProcessAdd
  \/ ProcessPrint
  \/ Bulk002Close
  \/ Bulk002SummaryRead
  \/ Bulk002SummaryPrint

Bulk002Spec == Bulk002Init /\ [][Bulk002Next]_vars

\* ------------------------------------------------ Stats.increment -----
\* the Stats a call of increment can find: counts up to MaxCounted verdicts
StatsInputs ==
  { s \in [total : 0..MaxCounted, found : 0..MaxCounted,
           notFound : 0..MaxCounted, withRead : 0..MaxCounted,
           withWrite : 0..MaxCounted, withAwsRead : 0..MaxCounted] :
      /\ s.total = s.found + s.notFound
      /\ s.withRead <= s.found
      /\ s.withWrite <= s.found
      /\ s.withAwsRead <= s.found }

\* the four booleans of a call, as the flags of a Result
FlagInputs ==
  { [NoResult2 EXCEPT !.found = f, !.canRead = r, !.canWrite = w,
                      !.awsRead = a] :
      f \in BOOLEAN, r \in BOOLEAN, w \in BOOLEAN, a \in BOOLEAN }

\* a Stats and a verdict about to be counted
IncrementInit ==
  /\ quietMode = TRUE /\ isPipe = TRUE /\ args = <<>>
  /\ requested = MinWorkerCount /\ workers = MinWorkerCount
  /\ stdinLines = MaxLines
  /\ mpc = "observe"
  /\ NothingSpawned
  /\ stats \in StatsInputs
  /\ pres \in FlagInputs
  /\ penv = NoEnv /\ pcalls = <<>>
  /\ NoBulk002

\* stats.increment(result.found, result.canRead, result.canWrite,
\* result.awsRead)
Observe ==
  /\ mpc = "observe"
  /\ stats' = increment(stats, pres.found, pres.canRead, pres.canWrite,
                        pres.awsRead)
  /\ mpc' = "observed"
  /\ UNCHANGED <<chanVars, workerVars, spc, readerVars, fwdVars, jobCount,
                 uiState, userQuit, m, exited, flagVars, proberVars, output,
                 consumed, probes>>

IncrementNext == Observe
IncrementSpec == IncrementInit /\ [][IncrementNext]_vars

\* flag.Parse() has returned
ClampInit ==
  /\ quietMode \in BOOLEAN
  /\ isPipe = FALSE
  /\ args = <<>>
  /\ requested \in RequestedWorkers
  /\ workers = requested
  /\ stdinLines = MaxLines
  /\ mpc = "flags"
  /\ NothingStarted
  /\ penv = NoEnv /\ pres = NoResult2 /\ pcalls = <<>>
  /\ NoBulk002

\* if *workers < 1 { *workers = 1 } else if *workers > 100 { *workers = 100 }
ClampWorkers ==
  /\ mpc = "flags"
  /\ workers' = clampWorkers(workers)
  /\ mpc' = "clamped"
  /\ UNCHANGED <<quietMode, isPipe, args, requested, stdinLines, chanVars,
                 workerVars, spc,
                 readerVars, fwdVars, jobCount, uiVars, exited, output,
                 consumed, probes, proberVars>>

ClampNext == ClampWorkers

ClampSpec == ClampInit /\ [][ClampNext]_vars

\* ================================================================ claims ==
\* how many times the consuming loop has received the verdict of line id
received(id) == Cardinality({i \in DOMAIN consumed : consumed[i].id = id})

\* where the name of line id, or its verdict, currently is
inSeq(q, id) == Cardinality({i \in DOMAIN q : q[i].id = id})
places(id) ==
  (IF rjob.id = id THEN 1 ELSE 0) + inSeq(jobs, id)
  + Cardinality({w \in WorkerIds : wjob[w].id = id})
  + Cardinality({w \in WorkerIds : wres[w].id = id})
  + inSeq(results, id) + received(id)

\* C1: in the quiet-mode bulk pipeline every non-skipped input name yields
\* exactly one verdict, received exactly once by the consuming loop: at
\* every moment the name or its verdict is in exactly one place, nothing
\* that was skipped is ever received, and when the loop has ended every
\* accepted name has been probed and its verdict received once, whatever
\* the probes returned.
C1_EachVerdictOnce ==
  QuietBulk =>
    /\ \A id \in 1..MaxLines :
         /\ places(id) = (IF id \in accepted THEN 1 ELSE 0)
         /\ received(id) <= 1
    /\ mpc = "done" =>
         /\ probes = accepted
         /\ \A id \in accepted : received(id) = 1

C1_Witness ==
  /\ QuietBulk /\ mpc = "done"
  /\ Len(consumed) = 2
  /\ ~consumed[1].found /\ consumed[2].found
  /\ consumed[1].id # consumed[2].id

\* C2: under fair scheduling, with finite input and every probe returning,
\* the quiet-mode scan terminates: the reader closes the job queue, every
\* worker exits, the supervisor closes the result queue and the consuming
\* loop exits.
C2_QuietScanTerminates == <>QuietTerminated

C2_Witness ==
  /\ QuietTerminated
  /\ workers = 1 /\ Len(consumed) = 2

\* C3: after any sequence of completed Stats.increment calls
\* total = found + notFound.
C3_TotalIsFoundPlusNotFound == stats.total = stats.found + stats.notFound

C3_Witness ==
  /\ stats.total = 2 /\ stats.found = 1 /\ stats.notFound = 1

\* C4: after the quit key during an interactive scan the supervisor still
\* closes the result queue and every worker, the reader and the forwarder
\* terminate: when the program has ended after a quit, no goroutine is left
\* in the middle of its loop.
C4_QuitShutsPipelineDown ==
  (Interactive /\ userQuit /\ exited) =>
    /\ resultsClosed
    /\ \A w \in SpawnedWorkers : wpc[w] = "done"
    /\ rpc = "done"
    /\ fpc = "done"
    /\ spc = "done"

\* C5: after the quit key the name-reading loop enqueues no further name
\* onto the job queue.
C5_NoEnqueueAfterQuit ==
  [][(Interactive /\ userQuit) => Len(jobs') <= Len(jobs)]_vars

\* C6: after the quit key a worker in the middle of a probe finishes that
\* probe, but no worker starts a probe for a name dequeued after the key.
C6_NoProbeAfterQuit ==
  Interactive =>
    /\ \A w \in SpawnedWorkers : wpc[w] = "probing" => ~wjob[w].late
    /\ (userQuit /\ exited) => \A w \in SpawnedWorkers : wpc[w] # "probing"

\* C7: without a user quit the forwarding loop exits only when the result
\* queue is closed and drained: every verdict a worker produced has been
\* forwarded to Update exactly once, and when the completion signal is
\* handled stats.total is the number of names the reader enqueued.
C7_ForwarderDrainsResults ==
  (Interactive /\ ~userQuit) =>
    /\ fpc \in {"signal", "done"} =>
         /\ resultsClosed /\ results = <<>>
         /\ Len(consumed) = jobCount
         /\ \A id \in accepted : received(id) = 1
    /\ ~m.processing => stats.total = Cardinality(accepted)

\* C8: with finite input, every probe returning and no user quit, the
\* completion signal p.Send(false) is sent to the UI: once the forwarder has
\* ended, Update has handled the signal and the program ends by itself.
C8_CompletionSignalSent ==
  (Interactive /\ ~userQuit /\ fpc = "done") =>
    (~m.processing /\ m.done /\ uiState # "running")

\* the bucket is accessible: exists && (publicRead || publicWrite || credentialRead)
Accessible(r) == r.found /\ (r.canRead \/ r.canWrite \/ r.awsRead)

csvLinesOf(rs) == [i \in 1..Len(rs) |-> csvLine(rs[i])]

\* C9: in quiet output a CSV line is printed for a verdict if and only if
\* exists && (publicRead || publicWrite || credentialRead), for bulk stdin
\* input and for a single name given as argument.
C9_CsvLineIffAccessible ==
  quietMode => output = csvLinesOf(SelectSeq(consumed, Accessible))

\* C10: in quiet bulk mode the output ends with exactly one summary line
\* beginning with '#', after every CSV line, and its total is the number of
\* names probed.
C10_SummaryLineLast ==
  (QuietBulk /\ mpc = "done") =>
    /\ output # <<>>
    /\ output[Len(output)].kind = "summary"
    /\ \A i \in 1..(Len(output) - 1) : output[i].kind = "csv"
    /\ output[Len(output)].total = Cardinality(probes)

\* a candidate the normalizer skips: empty after trimming, or a wildcard
skippedName(d) == d = <<>> \/ HasPrefix(d, "*")

\* every name or verdict that is in a queue, with a worker or the forwarder, or
\* has been counted
namesInPipeline ==
  {jobs[i].domain : i \in DOMAIN jobs}
    \cup {wjob[w].domain : w \in {v \in WorkerIds : wjob[v].id # 0}}
    \cup {wres[w].domain : w \in {v \in WorkerIds : wres[v].id # 0}}
    \cup {results[i].domain : i \in DOMAIN results}
    \cup {consumed[i].domain : i \in DOMAIN consumed}
    \cup (IF fres.id # 0 THEN {fres.domain} ELSE {})

\* C11: a line that is empty after trimming or begins with '*' never enters
\* the job queue, is never probed and never increments total, in the quiet
\* and in the interactive bulk pipeline.
C11_SkippedLinesNeverEnter ==
  isPipe =>
    /\ \A d \in namesInPipeline : ~skippedName(d)
    /\ stats.total <= Cardinality(accepted)

\* C12: the effective worker count is max(1, min(w, 100)) of the requested
\* count w: 0 or a negative number gives 1, 500 gives 100, a value in
\* 1..100 is unchanged.
C12_WorkerCountClamped ==
  mpc = "clamped" =>
    LET capped == IF requested < 100 THEN requested ELSE 100
    IN workers = (IF capped > 1 THEN capped ELSE 1)

C12_Witness == mpc = "clamped" /\ requested = 500 /\ workers = 100

\* every verdict a worker, a queue, the forwarder or a consumer holds or held
verdicts ==
  {wres[w] : w \in WorkerIds}
    \cup {results[i] : i \in DOMAIN results}
    \cup {consumed[i] : i \in DOMAIN consumed}
    \cup {fres}

\* C13: a verdict with found = false has canRead, canWrite and awsRead all
\* false, and an empty file list where the verdict carries one, whatever the
\* listing and the HTTP requests answered.
C13_NotFoundHasNoAccess ==
  /\ \A r \in verdicts :
       ~r.found => ~r.canRead /\ ~r.canWrite /\ ~r.awsRead
  /\ ~pres.found =>
       ~pres.canRead /\ ~pres.canWrite /\ ~pres.awsRead /\ pres.files = <<>>

C13_Witness ==
  /\ mpc = "done" /\ pcalls # <<>>
  /\ penv.head = "404" /\ penv.get = "200" /\ penv.err
  /\ ~pres.found /\ ~pres.canRead

lockedDown(r) == r.found /\ ~r.canRead /\ ~r.canWrite /\ ~r.awsRead
deniedListing(env) ==
  /\ env.err
  /\ "NoSuchBucket" \notin env.stderr
  /\ "AccessDenied" \in env.stderr \/ "AllAccessDisabled" \in env.stderr

\* C14: a listing that fails with AccessDenied or AllAccessDisabled gives a
\* verdict with found = true and no access flag, and the step that counts such
\* a verdict adds one to found and to total and leaves notFound as it was.
C14_LockedDownCountsAsFound ==
  /\ [](SingleDomain /\ consumed # <<>> /\ deniedListing(penv)
          => lockedDown(consumed[1]))
  /\ [][(isPipe /\ Len(consumed') = Len(consumed) + 1
           /\ lockedDown(consumed'[Len(consumed')]))
          => /\ stats'.found = stats.found + 1
             /\ stats'.total = stats.total + 1
             /\ stats'.notFound = stats.notFound]_vars

C14_Witness ==
  /\ isPipe
  /\ \E i \in DOMAIN consumed : lockedDown(consumed[i])
  /\ stats.found >= 1 /\ stats.notFound >= 1

C16_PublicReadNeedsAnonymousProbe ==
  /\ \A r \in verdicts : r.awsRead => r.found /\ ~r.canRead
  /\ pres.canRead =>
       penv.get = "200" /\ \E i \in DOMAIN pcalls : pcalls[i] = "GET"

BareNames == { <<"a">>, <<"b">> }
UrlForms(x) ==
  { Http \o x, Https \o x, x \o <<"/">>, Https \o x \o <<"/">> }

\* C17: a candidate written as a URL (http:// or https:// in front, one '/'
\* behind) is probed under the same name as the bare candidate.
C17_UrlAndBareNameProbeSame ==
  \A x \in BareNames : \A u \in UrlForms(x) :
    (SingleDomain /\ args = <<u>>) =>
      /\ \A i \in DOMAIN consumed : consumed[i].domain = x
      /\ pcalls # <<>> => pres.domain = x

workersExited ==
  wgCount = 0 /\ \A w \in WorkerIds : wpc[w] \in {"done", "off"}
\* the supervisor's close(results) step
supervisorCloses ==
  \/ QuietBulk /\ spc = "wait" /\ spc' = "done"
  \/ Interactive /\ spc = "closeResults" /\ spc' = "closeDone"

\* C19: in both bulk pipelines the result queue is closed once, by the
\* supervisor, after every worker has exited: while it is closed no worker is
\* left to send on it, only the supervisor's close changes it, and that close
\* finds it open.
C19_ResultsClosedOnceAfterWorkers ==
  /\ [](resultsClosed => isPipe /\ workersExited)
  /\ [][resultsClosed' # resultsClosed => supervisorCloses]_vars
  /\ [][supervisorCloses
          => ~resultsClosed /\ resultsClosed' /\ workersExited]_vars

C19_Witness ==
  /\ Interactive
  /\ resultsClosed /\ spc = "done"
  /\ Len(consumed) >= 2

\* the reader's close(jobs) step
readerCloses ==
  \/ QuietBulk /\ rpc = "scan" /\ rpc' = "done"
  \/ Interactive /\ rpc = "close" /\ rpc' = "done"

\* C20: the job queue is closed once, by the reader, on every path on which
\* the reader returns, and no name is enqueued after the close: the reader has
\* returned exactly when the queue is closed, only the reader's close changes
\* it, that close finds it open, and a closed queue never grows.
C20_JobsClosedOnceByReader ==
  /\ [](isPipe => (jobsClosed <=> rpc = "done"))
  /\ [](jobsClosed => isPipe /\ rjob = NoJob)
  /\ [][jobsClosed' # jobsClosed => readerCloses]_vars
  /\ [][readerCloses => ~jobsClosed /\ jobsClosed']_vars
  /\ [][jobsClosed => Len(jobs') <= Len(jobs)]_vars

C20_Witness ==
  /\ Interactive
  /\ jobsClosed /\ rpc = "done"
  /\ Cardinality(accepted) >= 1 /\ linesRead = MaxLines

\* part_002's single-name run has probed
probed002 == mpc = "done" /\ pcalls # <<>>
existsByCredential == ~penv.err
existsByHTTP == penv.head # "err" /\ penv.head # "404"
issued(c) == Cardinality({i \in DOMAIN pcalls : pcalls[i] = c})

\* C26: in part_002's analyzeBucket found is the OR of the two strategies:
\* true exactly when the credentialed listing or the HTTP existence check
\* confirmed the bucket, so neither strategy revokes the other's confirmation.
C26_FoundIsOrOfStrategies ==
  probed002 => (pres.found <=> (existsByCredential \/ existsByHTTP))

C26_Witness ==
  /\ probed002
  /\ existsByCredential /\ penv.head = "404"
  /\ pres.found

\* C27: a transport failure of one anonymous HTTP operation degrades only
\* that operation's flag: when the read request fails the write request is
\* still issued and canWrite reflects its answer.
C27_ReadFailureKeepsWriteProbe ==
  (probed002 /\ issued("GET") >= 1 /\ penv.get = "err") =>
    /\ issued("PUT") >= 1
    /\ pres.canWrite = (penv.put = "200")

\* C28: whenever either strategy confirmed the bucket, also the credentialed
\* listing alone, the anonymous read and write requests are both issued.
C28_ConfirmedMeansBothProbes ==
  (probed002 /\ pres.found /\ penv.get # "err") =>
    issued("GET") >= 1 /\ issued("PUT") >= 1

\* C29: one call of analyzeBucket issues exactly one credentialed listing and
\* at most three HTTP requests, one HEAD, at most one GET and at most one PUT,
\* none of them repeated, in quiet and in non-quiet mode.
C29_OneListingThreeRequests ==
  probed002 =>
    /\ issued("ls") = 1
    /\ issued("HEAD") = 1 /\ issued("GET") <= 1 /\ issued("PUT") <= 1
    /\ issued("HEAD") + issued("GET") + issued("PUT") <= 3

\* C24: one increment call adds one to total; for found = false it adds one
\* to notFound and leaves found, withRead, withWrite and withAwsRead as they
\* were, whatever the three access flags; for found = true it adds one to
\* found, leaves notFound, and adds one to each of withRead, withWrite and
\* withAwsRead exactly when its flag is true.
C24_IncrementFrame ==
  [][(mpc = "observe" /\ mpc' = "observed") =>
       LET plus(b) == IF b THEN 1 ELSE 0 IN
         /\ stats'.total = stats.total + 1
         /\ ~pres.found =>
              /\ stats'.notFound = stats.notFound + 1
              /\ stats'.found = stats.found
              /\ stats'.withRead = stats.withRead
              /\ stats'.withWrite = stats.withWrite
              /\ stats'.withAwsRead = stats.withAwsRead
         /\ pres.found =>
              /\ stats'.found = stats.found + 1
              /\ stats'.notFound = stats.notFound
              /\ stats'.withRead = stats.withRead + plus(pres.canRead)
              /\ stats'.withWrite = stats.withWrite + plus(pres.canWrite)
              /\ stats'.withAwsRead = stats.withAwsRead + plus(pres.awsRead)]_vars

C24_Witness ==
  /\ mpc = "observed"
  /\ ~pres.found /\ pres.canRead /\ pres.canWrite /\ pres.awsRead
  /\ stats.total = 1 /\ stats.notFound = 1
  /\ stats.withRead = 0 /\ stats.withWrite = 0 /\ stats.withAwsRead = 0

Counters ==
  {"total", "found", "notFound", "withRead", "withWrite", "withAwsRead"}

\* C25: no Stats counter ever decreases: in every step of a scan, a user quit
\* included, each of total, found, notFound, withRead, withWrite and
\* withAwsRead keeps or raises its value.
C25_CountersNeverDecrease ==
  [][\A c \in Counters : stats'[c] >= stats[c]]_vars

C25_Witness ==
  /\ Interactive
  /\ userQuit /\ uiState = "stopped"
  /\ stats.found >= 1 /\ stats.notFound >= 1

\* C30: the quiet-mode consumer receives the verdicts in the order in which
\* the workers put them on the result queue: the verdicts consumed followed by
\* the verdicts queued only ever grow by one verdict at the end.  That order
\* is not the order of the input: the witness is a run that consumes the
\* verdict of line 2 before the verdict of line 1.
C30_ConsumedInCompletionOrder ==
  [][QuietBulk =>
       LET before == consumed \o results
           after == consumed' \o results'
       IN /\ Len(after) \in {Len(before), Len(before) + 1}
          /\ SubSeq(after, 1, Len(before)) = before
          /\ Len(consumed') \in {Len(consumed), Len(consumed) + 1}]_vars

C30_Witness ==
  /\ QuietBulk
  /\ Len(consumed) = 2
  /\ consumed[1].id = 2 /\ consumed[2].id = 1

\* a bulk scan has spawned its workers
bulkStarted == isPipe /\ mpc \in {"run", "wait", "summary", "done"}
spawnedWorkers == {w \in WorkerIds : wpc[w] # "off"}
probing == {w \in WorkerIds : wpc[w] = "probing"}

\* C21: a bulk scan starts exactly as many workers as the clamped -w value,
\* whatever the number of input names, and never has more probes in flight.
C21_ExactlyWorkerCountWorkers ==
  bulkStarted =>
    /\ Cardinality(spawnedWorkers) = clampWorkers(requested)
    /\ Cardinality(probing) <= clampWorkers(requested)

\* the capacity the worker count gives a queue
queueBound == IF quietMode THEN workers ELSE workers * 2

\* C22: the job queue and the result queue never hold more than a capacity
\* fixed by the worker count (workers in quiet mode, 2*workers otherwise),
\* however many names the input has.
C22_QueuesBoundedByWorkers ==
  bulkStarted =>
    /\ Len(jobs) <= queueBound
    /\ Len(results) <= queueBound

\* C23: a reader of the counters for reporting never sees total incremented
\* without found or notFound: the values read for the summary line, and the
\* counters the interactive view shows once done, have
\* total = found + notFound.
C23_SummarySeesConsistentCounters ==
  /\ Len(summary) = Len(SummaryFields) => summary[1] = summary[2] + summary[6]
  /\ m.done => stats.total = stats.found + stats.notFound

\* C31: after any verdict is counted, withRead, withWrite and withAwsRead are
\* at most found, and found and notFound are at most total, also for a
\* verdict with found = false and access flags true.
C31_CountersOrdered ==
  /\ stats.withRead <= stats.found
  /\ stats.withWrite <= stats.found
  /\ stats.withAwsRead <= stats.found
  /\ stats.found <= stats.total
  /\ stats.notFound <= stats.total

C31_Witness ==
  /\ mpc = "observed"
  /\ ~pres.found /\ pres.canRead /\ pres.canWrite /\ pres.awsRead
  /\ stats.found = 1 /\ stats.total = 2
  /\ stats.withRead = 1 /\ stats.withWrite = 1 /\ stats.withAwsRead = 1

\* the supervisor's close(done) step
supervisorClosesDone == Interactive /\ spc = "closeDone" /\ spc' = "done"
\* a worker returning through a '<-done' case instead of the end of range jobs
workerTakesDone(w) == wpc[w] \in {"check", "sending"} /\ wpc'[w] = "done"
\* the reader returning through a '<-done' case
readerTakesDone ==
  \/ rpc = "enqueue" /\ rpc' = "close"
  \/ rpc = "scan" /\ rpc' = "close" /\ linesRead' # linesRead

\* C32: in the interactive pipeline done is closed only by the supervisor,
\* after every worker has exited and the reader has closed jobs, so no worker
\* and no reader takes a '<-done' case: no dequeued name is skipped, no
\* verdict discarded, and once all workers have exited jobCount is the number
\* of names dequeued from the job queue.
C32_DoneNeverObserved ==
  /\ [](Interactive /\ doneClosed => workersExited /\ jobsClosed /\ resultsClosed)
  /\ [][doneClosed' # doneClosed => supervisorClosesDone /\ ~doneClosed]_vars
  /\ [][Interactive =>
          /\ \A w \in WorkerIds : ~workerTakesDone(w)
          /\ ~readerTakesDone]_vars
  /\ [](Interactive /\ workersExited =>
          /\ jobs = <<>>
          /\ jobCount = Cardinality(probes)
          /\ jobCount = Cardinality(accepted))

C32_Witness ==
  /\ Interactive
  /\ doneClosed /\ workersExited
  /\ jobCount = MaxLines

\* names read and accepted whose verdict the consuming loop has not received
inFlight == Cardinality(accepted) - Len(consumed)
holding == {w \in WorkerIds : wjob[w].id # 0 \/ wres[w].id # 0}

\* C33: in the quiet pipeline with W workers at most 3*W + 1 names are read
\* but not yet consumed, however long the input: they are the names in the
\* job queue (at most W), with the workers (at most W), in the result queue
\* (at most W) and the one the reader holds.
C33_InFlightBounded ==
  QuietBulk =>
    /\ inFlight <= 3 * workers + 1
    /\ inFlight = Len(jobs) + Cardinality(holding) + Len(results)
                    + (IF rjob.id # 0 THEN 1 ELSE 0)
    /\ Len(jobs) <= workers
    /\ Cardinality(holding) <= workers
    /\ Len(results) <= workers

C33_Witness ==
  /\ QuietBulk
  /\ workers = 1 /\ stdinLines > 3 * workers + 1
  /\ inFlight = 3 * workers + 1
  /\ linesRead < stdinLines

====
